---- MODULE Spec2Model ----
(***************************************************************************)
(* Data Contract Execution Engine: the SLA enforcer, the validation        *)
(* pipeline and the request handler, as state machines.                    *)
(*                                                                         *)
(*   SpecSLA  steps SLAEnforcer.enforce_sla statement by statement.        *)
(*   SpecGen  steps PipelineGenerator.generate statement by statement.     *)
(*   Spec     steps runtime.lambda_handler.handler call by call.           *)
(*                                                                         *)
(* Python values are tagged records.  A rule value is [tag, n]: tag "num"  *)
(* is a number (n is the number; a completeness threshold is kept in       *)
(* hundredths, 95 for 0.95), "str" and "none" are a YAML string and a YAML *)
(* null, which Python refuses to order against a number (TypeError),       *)
(* "absent" is a key the mapping does not hold.  A raised exception is the *)
(* field exc of the frame it unwinds ("" when none is in flight).          *)
(***************************************************************************)
EXTENDS Integers, Sequences, FiniteSets, TLC

\* ------------------------------------------------------------------ bounds
\* Largest number of rows of a dataset.
MaxRows == 2
\* Largest number of cells (rows times columns) of a dataset.
MaxCells == 4
\* Largest row-count bound a contract configures.
MaxBound == 3
\* Longest constraint list handed to validate_constraints.
MaxConstraints == 2

\* ----------------------------------------------------------------- datasets
\* Column names a dataset may carry, and names a schema may require.
ColNames == {"id", "name"}
SchemaNames == {"id", "email"}
\* Cell values: a missing value, a scalar, an unhashable object (a list).
CellValues == {"null", "1", "list"}

\* pandas.DataFrame: a set of column names and a sequence of rows.
Frames(values) ==
  UNION { UNION { { [columns |-> cs, rows |-> rs] : rs \in [1..n -> [cs -> values]] }
                  : n \in { k \in 0..MaxRows : k * Cardinality(cs) <= MaxCells } }
          : cs \in SUBSET ColNames }
DataFrames == Frames(CellValues)
\* Datasets of scalars and missing values only.
ScalarFrames == Frames({"null", "1"})
\* What pandas.read_csv yields: at least one column, no object cells.
CsvFrames == { d \in ScalarFrames : d.columns # {} }

\* len(df)
RowCount(df) == Len(df.rows)

\* df.isna().sum().sum()
NullCells(df) ==
  Cardinality({ p \in (1..Len(df.rows)) \X df.columns : df.rows[p[1]][p[2]] = "null" })

\* df[col].isna().sum()
NullCount(df, col) ==
  Cardinality({ i \in 1..Len(df.rows) : df.rows[i][col] = "null" })

\* ---------------------------------------------------------------- SLA rules
ABSENT == [tag |-> "absent", n |-> 0]
Num(k) == [tag |-> "num", n |-> k]
STR == [tag |-> "str", n |-> 0]
NONE == [tag |-> "none", n |-> 0]

\* The mappings with the three recognised keys drawn from the given values.
RuleDicts(mins, maxs, thrs) ==
  [kind : {"dict"}, min_rows : mins, max_rows : maxs, completeness_threshold : thrs]

\* Rules that are no mapping: None (YAML "sla:" left empty), on which "in"
\* raises, and a list of key names ("sla: [min_rows]"), on which "in" is
\* membership and a subscript by a string raises.
RuleNone == [kind |-> "none", min_rows |-> ABSENT, max_rows |-> ABSENT,
             completeness_threshold |-> ABSENT]
RuleLists ==
  [kind : {"list"}, min_rows : {ABSENT, STR}, max_rows : {ABSENT, STR},
   completeness_threshold : {ABSENT}]

RowBoundValues == {ABSENT, STR, NONE} \cup { Num(k) : k \in 0..MaxBound }
ThresholdValues == {ABSENT, STR} \cup { Num(k) : k \in {0, 50, 100, 150} }

SlaRules == RuleDicts(RowBoundValues, RowBoundValues, ThresholdValues)
              \cup {RuleNone} \cup RuleLists

\* key in self.sla_rules: "raise", or the truth value.
KeyIn(rules, key) ==
  IF rules.kind = "none" THEN "raise"
  ELSE IF rules[key].tag # "absent" THEN "true" ELSE "false"

\* self.sla_rules[key]: raises when the rules are a list.
SubscriptRaises(rules) == rules.kind = "list"

\* int < value, int > value, float < value: Python orders numbers only.
Comparable(v) == v.tag = "num"

\* ------------------------------------------------------------- enforce_sla
\* A violation message, by its format string and the values it interpolates.
MinText == "Row count {} is less than minimum {}"
MaxText == "Row count {} exceeds maximum {}"
CompletenessText == "Completeness {:.2%} is below threshold {:.2%}"
ErrorText == "Error enforcing SLA: {}"
MsgMin(n, m) == [text |-> MinText, a |-> n, b |-> m]
MsgMax(n, m) == [text |-> MaxText, a |-> n, b |-> m]
MsgCompleteness(c, t) == [text |-> CompletenessText, a |-> c, b |-> t]
MsgError(e) == [text |-> ErrorText, a |-> e, b |-> 0]

\* results = {"sla_passed": True, "violations": [], "metrics": {}}
\* (the timestamp, which no branch reads, is left out).
SlaInitial ==
  [sla_passed |-> TRUE, violations |-> <<>>, metrics |-> <<>>, exc |-> ""]

Fail(res, msg) ==
  [res EXCEPT !.sla_passed = FALSE, !.violations = Append(@, msg)]

Raise(res, e) == [res EXCEPT !.exc = e]

SetMetric(res, k, v) == [res EXCEPT !.metrics = (k :> v) @@ @]

\* if "min_rows" in self.sla_rules: ...
CheckMinRowsBuggy(res, rules, df) ==
  IF KeyIn(rules, "min_rows") = "raise" THEN Raise(res, "TypeError")
  ELSE IF KeyIn(rules, "min_rows") = "false" THEN res
  ELSE LET r1 == SetMetric(res, "row_count", RowCount(df))
       IN  IF SubscriptRaises(rules) \/ ~Comparable(rules.min_rows)
             THEN Raise(r1, "TypeError")
           ELSE IF RowCount(df) <= rules.min_rows.n
             THEN Fail(r1, MsgMin(RowCount(df), rules.min_rows.n))
           ELSE r1

CheckMinRows(res, rules, df) ==
  IF KeyIn(rules, "min_rows") = "raise" THEN Raise(res, "TypeError")
  ELSE IF KeyIn(rules, "min_rows") = "false" THEN res
  ELSE LET r1 == SetMetric(res, "row_count", RowCount(df))
       IN  IF SubscriptRaises(rules) \/ ~Comparable(rules.min_rows)
             THEN Raise(r1, "TypeError")
           ELSE IF RowCount(df) < rules.min_rows.n
             THEN Fail(r1, MsgMin(RowCount(df), rules.min_rows.n))
           ELSE r1

\* if "max_rows" in self.sla_rules: ...
CheckMaxRows(res, rules, df) ==
  IF KeyIn(rules, "max_rows") = "raise" THEN Raise(res, "TypeError")
  ELSE IF KeyIn(rules, "max_rows") = "false" THEN res
  ELSE IF SubscriptRaises(rules) \/ ~Comparable(rules.max_rows)
    THEN Raise(res, "TypeError")
  ELSE IF RowCount(df) > rules.max_rows.n
    THEN Fail(res, MsgMax(RowCount(df), rules.max_rows.n))
  ELSE res

\* completeness, as the fraction num/den (1/1 when there are no cells).
Completeness(df) ==
  LET total_cells == RowCount(df) * Cardinality(df.columns)
      null_cells == NullCells(df)
  IN  IF total_cells > 0 THEN [num |-> total_cells - null_cells, den |-> total_cells]
      ELSE [num |-> 1, den |-> 1]

\* completeness < threshold, the threshold in hundredths.
Below(c, pct) == c.num * 100 < pct * c.den

\* if "completeness_threshold" in self.sla_rules: ...
CheckCompletenessBuggy(res, rules, df) ==
  IF KeyIn(rules, "completeness_threshold") = "raise" THEN Raise(res, "TypeError")
  ELSE LET r1 == SetMetric(res, "completeness", Completeness(df))
       IN  IF KeyIn(rules, "completeness_threshold") = "false" THEN r1
           ELSE IF SubscriptRaises(rules) \/ ~Comparable(rules.completeness_threshold)
             THEN Raise(r1, "TypeError")
           ELSE IF Below(Completeness(df), rules.completeness_threshold.n)
             THEN Fail(r1, MsgCompleteness(Completeness(df), rules.completeness_threshold.n))
           ELSE r1

CheckCompleteness(res, rules, df) ==
  IF KeyIn(rules, "completeness_threshold") = "raise" THEN Raise(res, "TypeError")
  ELSE IF KeyIn(rules, "completeness_threshold") = "false" THEN res
  ELSE IF SubscriptRaises(rules) THEN Raise(res, "TypeError")
  ELSE LET threshold == rules.completeness_threshold
           r1 == SetMetric(res, "completeness", Completeness(df))
       IN  IF ~Comparable(threshold) THEN Raise(r1, "TypeError")
           ELSE IF Below(Completeness(df), threshold.n)
             THEN Fail(r1, MsgCompleteness(Completeness(df), threshold.n))
           ELSE r1

\* except Exception as e: ...
SlaExceptBuggy(res) == [res EXCEPT !.exc = ""]

SlaExcept(res) ==
  [Fail(res, MsgError(res.exc)) EXCEPT !.exc = ""]

\* enforce_sla as one call: the try block, then the handler if it raised.
\* The returned mapping has no exc: nothing is in flight after the return.
Returned(res) ==
  [sla_passed |-> res.sla_passed, violations |-> res.violations, metrics |-> res.metrics]

EnforceSla(rules, df) ==
  LET r1 == CheckMinRows(SlaInitial, rules, df)
      r2 == IF r1.exc = "" THEN CheckMaxRows(r1, rules, df) ELSE r1
      r3 == IF r2.exc = "" THEN CheckCompleteness(r2, rules, df) ELSE r2
  IN  Returned(IF r3.exc = "" THEN r3 ELSE SlaExcept(r3))

\* ------------------------------------------------------- validation engine
\* A contract schema: a mapping whose "columns" is absent, a mapping keyed by
\* the required column names, or None; or no mapping at all (None).
Schemas ==
  { [kind |-> "none", columns |-> [tag |-> "absent", keys |-> {}]],
    [kind |-> "dict", columns |-> [tag |-> "absent", keys |-> {}]],
    [kind |-> "dict", columns |-> [tag |-> "none", keys |-> {}]] }
  \cup { [kind |-> "dict", columns |-> [tag |-> "dict", keys |-> ks]] : ks \in SUBSET SchemaNames }

\* Column names a contract may declare ("ID" differs from the dataset's "id"
\* by case only) and the types it may declare for them.
DeclaredNames == SchemaNames \cup {"ID"}
ColumnTypes == {"integer", "string"}

\* Schemas whose columns mapping gives each declared name a type; the schema
\* or its columns may also be None or a list.
TypedSchemas ==
  { [kind |-> k, columns |-> [tag |-> "absent", keys |-> {}, types |-> <<>>]] :
      k \in {"none", "list", "dict"} }
  \cup { [kind |-> "dict", columns |-> [tag |-> t, keys |-> {}, types |-> <<>>]] :
      t \in {"none", "list"} }
  \cup { [kind |-> "dict", columns |-> [tag |-> "dict", keys |-> DOMAIN ts, types |-> ts]] :
      ts \in UNION { [ks -> ColumnTypes] : ks \in SUBSET DeclaredNames } }

\* validate_schema that matches column names without regard to case.
ValidateSchemaBuggy(sch, df) ==
  IF sch.kind # "dict" THEN FALSE
  ELSE IF sch.columns.tag \notin {"absent", "dict"} THEN FALSE
  ELSE \A col_name \in sch.columns.keys :
         col_name \in df.columns \/ (col_name = "ID" /\ "id" \in df.columns)

\* validate_schema(df): self.schema.get and contract_columns.keys() raise
\* AttributeError on None or a list, which the except clause turns into False.
ValidateSchema(sch, df) ==
  IF sch.kind # "dict" THEN FALSE
  ELSE IF sch.columns.tag \notin {"absent", "dict"} THEN FALSE
  ELSE \A col_name \in sch.columns.keys : col_name \in df.columns

\* df.drop_duplicates() raises TypeError on an unhashable cell of a dataset
\* that is not empty (DataFrame.empty: no rows or no columns).
DropDuplicatesRaises(df) ==
  /\ RowCount(df) > 0
  /\ df.columns # {}
  /\ \E i \in 1..Len(df.rows) : \E c \in df.columns : df.rows[i][c] = "list"

\* len(df) - len(df.drop_duplicates())
DuplicateRows(df) ==
  RowCount(df) - Cardinality({ df.rows[i] : i \in 1..Len(df.rows) })

\* validate_data_quality(df)
ValidateDataQuality(df) ==
  LET null_counts == [col \in df.columns |-> NullCount(df, col)]
  IN  IF DropDuplicatesRaises(df)
        THEN [total_rows |-> RowCount(df), null_counts |-> null_counts,
              duplicate_rows |-> 0, validation_passed |-> FALSE, error |-> "TypeError"]
        ELSE [total_rows |-> RowCount(df), null_counts |-> null_counts,
              duplicate_rows |-> IF df.columns = {} THEN 0 ELSE DuplicateRows(df),
              validation_passed |-> TRUE]

\* Cells of a numeric column, and the number a cell that is not missing holds.
NumberCells == {"null", "1", "2"}
CellNumber(v) == IF v = "1" THEN 1 ELSE 2
\* Datasets validate_constraints is called on: the numeric column "id" or none.
ConstraintFrames == { d \in Frames(NumberCells) : d.columns \subseteq {"id"} }

\* A constraint {type, column, value}; constraint.get("value") of a not_null
\* constraint without a value is None.  "email" is in no dataset.
Constraints ==
  [type : {"not_null"}, column : {"id", "email"}, value : {ABSENT}]
  \cup [type : {"min_value", "max_value"}, column : {"id"}, value : {Num(1), Num(2), STR}]
  \cup [type : {"min_value", "max_value"}, column : {"email"}, value : {Num(1)}]
ConstraintLists == UNION { [1..n -> Constraints] : n \in 0..MaxConstraints }

\* df[column].min() and .max() skip missing values and are NaN when nothing
\* is left.
NotMissing(df, column) ==
  { CellNumber(df.rows[i][column]) : i \in { k \in 1..Len(df.rows) : df.rows[k][column] # "null" } }
ColumnMin(df, column) ==
  LET vs == NotMissing(df, column)
  IN  IF vs = {} THEN [nan |-> TRUE, v |-> 0]
      ELSE [nan |-> FALSE, v |-> CHOOSE x \in vs : \A y \in vs : x <= y]
ColumnMax(df, column) ==
  LET vs == NotMissing(df, column)
  IN  IF vs = {} THEN [nan |-> TRUE, v |-> 0]
      ELSE [nan |-> FALSE, v |-> CHOOSE x \in vs : \A y \in vs : x >= y]

\* min_val < value, max_val > value: a comparison with NaN is False.
BelowValueBuggy(min_val, value) == ~min_val.nan /\ min_val.v <= value.n
BelowValue(min_val, value) == ~min_val.nan /\ min_val.v < value.n
AboveValue(max_val, value) == ~max_val.nan /\ max_val.v > value.n

\* One pass of the loop body: the constraint passes, returns False, or raises
\* (KeyError from df[column], TypeError from ordering a number against a
\* string or None).
CheckConstraint(c, df) ==
  IF c.column \notin df.columns THEN "raise"
  ELSE IF c.type = "not_null"
    THEN IF NullCount(df, c.column) > 0 THEN "fail" ELSE "pass"
  ELSE IF ~Comparable(c.value) THEN "raise"
  ELSE IF c.type = "min_value"
    THEN IF BelowValue(ColumnMin(df, c.column), c.value) THEN "fail" ELSE "pass"
  ELSE IF AboveValue(ColumnMax(df, c.column), c.value) THEN "fail" ELSE "pass"

\* df.drop_duplicates(): a new frame holding the first occurrence of each row.
DropDuplicates(df) ==
  LET keep[n \in 0..Len(df.rows)] ==
        IF n = 0 THEN <<>>
        ELSE IF \E j \in 1..(n - 1) : df.rows[j] = df.rows[n] THEN keep[n - 1]
        ELSE Append(keep[n - 1], df.rows[n])
  IN  [columns |-> df.columns, rows |-> keep[Len(df.rows)]]

\* The caller's dataset after validate_data_quality(df): isna() and
\* drop_duplicates() (called without inplace) build new objects.
QualityFrameBuggy(df) == IF DropDuplicatesRaises(df) THEN df ELSE DropDuplicates(df)

QualityFrame(df) == df

\* ----------------------------------------------------------------- generate
\* self.pipeline_results = {"input_rows": len(df), "steps": [], "success": True}
GenInitialBuggy(df) == [input_rows |-> RowCount(df), steps |-> <<>>, success |-> FALSE]

GenInitial(df) == [input_rows |-> RowCount(df), steps |-> <<>>, success |-> TRUE]

\* self.pipeline_results["steps"].append(step)
AppendStepBuggy(pr, step) == [pr EXCEPT !.steps = <<step>> \o @]

AppendStep(pr, step) == [pr EXCEPT !.steps = Append(@, step)]

\* Step 1: the schema_validation step.
SchemaStep(pr, sch, df) ==
  LET schema_valid == ValidateSchema(sch, df)
  IN  AppendStep(pr, [name |-> "schema_validation",
                      status |-> IF schema_valid THEN "passed" ELSE "failed",
                      details |-> IF schema_valid THEN "Schema validation passed"
                                  ELSE "Schema validation failed"])

\* if not schema_valid: self.pipeline_results["success"] = False
SchemaFlagBuggy(pr, schema_valid) == pr

SchemaFlag(pr, schema_valid) ==
  IF ~schema_valid THEN [pr EXCEPT !.success = FALSE] ELSE pr

\* Step 2: the data_quality step.
QualityStep(pr, df) ==
  AppendStep(pr, [name |-> "data_quality", status |-> "completed",
                  details |-> ValidateDataQuality(df)])

\* Step 3: the sla_enforcement step.
SlaStep(pr, rules, df) ==
  LET sla_results == EnforceSla(rules, df)
  IN  AppendStep(pr, [name |-> "sla_enforcement",
                      status |-> IF sla_results.sla_passed THEN "passed" ELSE "failed",
                      details |-> sla_results])

\* if not sla_results["sla_passed"]: self.pipeline_results["success"] = False
SlaFlagBuggy(pr) == pr

SlaFlag(pr) ==
  IF ~pr.steps[Len(pr.steps)].details.sla_passed THEN [pr EXCEPT !.success = FALSE]
  ELSE pr

\* The caller's dataset after generate(df): validate_schema and enforce_sla
\* only read it.
GenerateFrame(sch, df) == IF ValidateSchema(sch, df) THEN QualityFrame(df) ELSE df

\* The report object an earlier generate returned, once the next generate has
\* bound self.pipeline_results to its fresh dict: a new object is bound, the
\* old one is not written.
DetachedBuggy(old, fresh) == fresh

Detached(old, fresh) == old

\* get_results()
GetResults(pr) == pr

\* generate(df) as one call.
Generate(sch, rules, df) ==
  LET schema_valid == ValidateSchema(sch, df)
      r1 == SchemaFlag(SchemaStep(GenInitial(df), sch, df), schema_valid)
  IN  IF ~schema_valid THEN r1
      ELSE SlaFlag(SlaStep(QualityStep(r1, df), rules, df))

\* ------------------------------------------------------------------- state
VARIABLES
  pc,                \* position of the running call
  df,                \* the dataset handed to the call
  sla_rules,         \* SLAEnforcer.sla_rules
  results,           \* enforce_sla's local results
  schema,            \* ValidationEngine.schema
  pipeline_results,  \* PipelineGenerator.pipeline_results
  event,             \* the handler's event
  contract,          \* the handler's loaded contract
  input_row_count,   \* the handler's input_row_count
  calls,             \* collaborators the handler has called, in order
  error,             \* the exception unwinding the handler ("" when none)
  target,            \* what the target location holds
  response,          \* what the handler returned
  source,            \* the dataset _read_csv returned
  valid,             \* what validate_schema / validate_constraints returned
  constraints,       \* the list handed to validate_constraints
  checked,           \* how many constraints the loop has taken up
  earlier,           \* the report the previous generate returned, and its dataset
  got                \* what the last get_results returned

vars == <<pc, df, sla_rules, results, schema, pipeline_results, event, contract,
          input_row_count, calls, error, target, response, source, valid, constraints,
          checked, earlier, got>>

NoFrame == [columns |-> {}, rows |-> <<>>]
NoSchema == [kind |-> "dict", columns |-> [tag |-> "absent", keys |-> {}]]
NoEvent == [contract_path |-> "", source_path |-> "", target_path |-> ""]
NoContract == [name |-> "", source_s3_path |-> "", target_s3_path |-> "",
               schema |-> NoSchema, sla |-> RuleNone]
NoResponse == [statusCode |-> 0]
NoTarget == [written |-> FALSE, partial |-> FALSE, data |-> NoFrame]
NoReport == [fetched |-> FALSE, value |-> <<>>]
NoEarlier == [returned |-> FALSE, df |-> NoFrame, report |-> <<>>]

\* The variables of the validators and of the report cache, at rest.
Validators == <<valid, constraints, checked>>
Cache == <<earlier, got>>
ValidatorsIdle == valid = TRUE /\ constraints = <<>> /\ checked = 0
CacheIdle == earlier = NoEarlier /\ got = NoReport

\* ----------------------------------------------------- SpecSLA: enforce_sla
\* SLAEnforcer(sla_rules), before the first enforce_sla.
InitSLA ==
  /\ pc = "ready"
  /\ sla_rules \in SlaRules
  /\ df = NoFrame
  /\ results = SlaInitial
  /\ schema = NoSchema
  /\ pipeline_results = <<>>
  /\ event = NoEvent
  /\ contract = NoContract
  /\ input_row_count = 0
  /\ calls = <<>>
  /\ error = ""
  /\ target = NoTarget
  /\ response = NoResponse
  /\ source = NoFrame
  /\ ValidatorsIdle
  /\ CacheIdle

SlaFrame == <<sla_rules, schema, pipeline_results, event, contract, input_row_count,
              calls, error, target, response, source, Validators, Cache>>

\* enforce_sla(df): results = {...}; try: row_count = len(df)
SlaCall ==
  /\ pc \in {"ready", "returned"}
  /\ \E d \in ScalarFrames : df' = d
  /\ results' = SlaInitial
  /\ pc' = "min_rows"
  /\ UNCHANGED SlaFrame

SlaMinRows ==
  /\ pc = "min_rows"
  /\ results' = CheckMinRows(results, sla_rules, df)
  /\ pc' = IF results'.exc = "" THEN "max_rows" ELSE "except"
  /\ UNCHANGED <<df, SlaFrame>>

SlaMaxRows ==
  /\ pc = "max_rows"
  /\ results' = CheckMaxRows(results, sla_rules, df)
  /\ pc' = IF results'.exc = "" THEN "completeness" ELSE "except"
  /\ UNCHANGED <<df, SlaFrame>>

SlaCompleteness ==
  /\ pc = "completeness"
  /\ results' = CheckCompleteness(results, sla_rules, df)
  /\ pc' = IF results'.exc = "" THEN "return" ELSE "except"
  /\ UNCHANGED <<df, SlaFrame>>

\* return results (end of the try block)
SlaReturn ==
  /\ pc = "return"
  /\ pc' = "returned"
  /\ UNCHANGED <<df, results, SlaFrame>>

\* except Exception as e: ...; return results
SlaHandle ==
  /\ pc = "except"
  /\ results' = SlaExcept(results)
  /\ pc' = "returned"
  /\ UNCHANGED <<df, SlaFrame>>

NextSLA ==
  \/ SlaCall
  \/ SlaMinRows
  \/ SlaMaxRows
  \/ SlaCompleteness
  \/ SlaReturn
  \/ SlaHandle

SpecSLA == InitSLA /\ [][NextSLA]_vars

\* ------------------------------------------------------- SpecGen: generate
\* SLA rules of the contracts the pipeline is run on.
GenSlaRules ==
  RuleDicts({ABSENT, STR, Num(1)}, {ABSENT, Num(1)}, {ABSENT, Num(100)}) \cup {RuleNone}

\* PipelineGenerator(contract), before the first generate.
InitGen ==
  /\ pc = "idle"
  /\ schema \in Schemas
  /\ sla_rules \in GenSlaRules
  /\ df = NoFrame
  /\ results = SlaInitial
  /\ pipeline_results = <<>>
  /\ event = NoEvent
  /\ contract = NoContract
  /\ input_row_count = 0
  /\ calls = <<>>
  /\ error = ""
  /\ target = NoTarget
  /\ response = NoResponse
  /\ source = NoFrame
  /\ ValidatorsIdle
  /\ CacheIdle

GenFrame == <<sla_rules, results, schema, event, contract, input_row_count, calls,
              error, target, response, source, Validators>>

\* generate(df): self.pipeline_results = {...}
GenCall ==
  /\ pc \in {"idle", "returned"}
  /\ \E d \in DataFrames : df' = d
  /\ pipeline_results' = GenInitial(df')
  /\ pc' = "schema"
  /\ UNCHANGED <<GenFrame, Cache>>

GenSchema ==
  /\ pc = "schema"
  /\ pipeline_results' = SchemaStep(pipeline_results, schema, df)
  /\ pc' = "schema_flag"
  /\ UNCHANGED <<df, GenFrame, Cache>>

\* if not schema_valid: success = False; return self.pipeline_results
GenSchemaFlag ==
  /\ pc = "schema_flag"
  /\ pipeline_results' = SchemaFlag(pipeline_results, ValidateSchema(schema, df))
  /\ pc' = IF ValidateSchema(schema, df) THEN "quality" ELSE "returned"
  /\ UNCHANGED <<df, GenFrame, Cache>>

GenQuality ==
  /\ pc = "quality"
  /\ pipeline_results' = QualityStep(pipeline_results, df)
  /\ df' = QualityFrame(df)
  /\ pc' = "sla"
  /\ UNCHANGED <<GenFrame, Cache>>

GenSla ==
  /\ pc = "sla"
  /\ pipeline_results' = SlaStep(pipeline_results, sla_rules, df)
  /\ pc' = "sla_flag"
  /\ UNCHANGED <<df, GenFrame, Cache>>

\* if not sla_results["sla_passed"]: success = False
GenSlaFlag ==
  /\ pc = "sla_flag"
  /\ pipeline_results' = SlaFlag(pipeline_results)
  /\ pc' = "return"
  /\ UNCHANGED <<df, GenFrame, Cache>>

\* return self.pipeline_results
GenReturn ==
  /\ pc = "return"
  /\ pc' = "returned"
  /\ UNCHANGED <<df, pipeline_results, GenFrame, Cache>>

NextGen ==
  \/ GenCall
  \/ GenSchema
  \/ GenSchemaFlag
  \/ GenQuality
  \/ GenSla
  \/ GenSlaFlag
  \/ GenReturn

SpecGen == InitGen /\ [][NextGen]_vars

\* ------------------------------------------- SpecSchema: validate_schema
\* ValidationEngine(schema), before the first validate_schema.
InitSchema ==
  /\ pc = "ready"
  /\ schema \in TypedSchemas
  /\ sla_rules = RuleNone
  /\ df = NoFrame
  /\ results = SlaInitial
  /\ pipeline_results = <<>>
  /\ event = NoEvent
  /\ contract = NoContract
  /\ input_row_count = 0
  /\ calls = <<>>
  /\ error = ""
  /\ target = NoTarget
  /\ response = NoResponse
  /\ source = NoFrame
  /\ ValidatorsIdle
  /\ CacheIdle

SchemaFrame == <<sla_rules, results, schema, pipeline_results, event, contract,
                 input_row_count, calls, error, target, response, source, constraints,
                 checked, Cache>>

\* validate_schema(df)
VsCall ==
  /\ pc \in {"ready", "returned"}
  /\ \E d \in DataFrames : df' = d
  /\ pc' = "validate_schema"
  /\ UNCHANGED <<valid, SchemaFrame>>

\* try: ... return True / return False; except Exception: return False
VsReturn ==
  /\ pc = "validate_schema"
  /\ valid' = ValidateSchema(schema, df)
  /\ pc' = "returned"
  /\ UNCHANGED <<df, SchemaFrame>>

NextSchema ==
  \/ VsCall
  \/ VsReturn

SpecSchema == InitSchema /\ [][NextSchema]_vars

\* ------------------------------------ SpecConstraints: validate_constraints
\* A ValidationEngine and the constraint list of its validate_constraints calls.
InitConstraints ==
  /\ pc = "ready"
  /\ constraints \in ConstraintLists
  /\ valid = TRUE
  /\ checked = 0
  /\ schema = NoSchema
  /\ sla_rules = RuleNone
  /\ df = NoFrame
  /\ results = SlaInitial
  /\ pipeline_results = <<>>
  /\ event = NoEvent
  /\ contract = NoContract
  /\ input_row_count = 0
  /\ calls = <<>>
  /\ error = ""
  /\ target = NoTarget
  /\ response = NoResponse
  /\ source = NoFrame
  /\ CacheIdle

ConstraintsFrame == <<sla_rules, results, schema, pipeline_results, event, contract,
                      input_row_count, calls, error, target, response, source,
                      constraints, Cache>>

\* validate_constraints(df, constraints): try: for constraint in constraints
VcCall ==
  /\ pc \in {"ready", "returned"}
  /\ \E d \in ConstraintFrames : df' = d
  /\ checked' = 0
  /\ pc' = "loop"
  /\ UNCHANGED <<valid, ConstraintsFrame>>

\* The loop body on the next constraint.
VcCheck ==
  /\ pc = "loop"
  /\ checked < Len(constraints)
  /\ checked' = checked + 1
  /\ LET outcome == CheckConstraint(constraints[checked + 1], df)
     IN  /\ pc' = CASE outcome = "pass" -> "loop"
                   [] outcome = "fail" -> "returned"
                   [] outcome = "raise" -> "except"
         /\ valid' = IF outcome = "fail" THEN FALSE ELSE valid
  /\ UNCHANGED <<df, ConstraintsFrame>>

\* return True, after the loop
VcReturn ==
  /\ pc = "loop"
  /\ checked = Len(constraints)
  /\ valid' = TRUE
  /\ pc' = "returned"
  /\ UNCHANGED <<df, checked, ConstraintsFrame>>

\* except Exception as e: ...; return False
VcExcept ==
  /\ pc = "except"
  /\ valid' = FALSE
  /\ pc' = "returned"
  /\ UNCHANGED <<df, checked, ConstraintsFrame>>

NextConstraints ==
  \/ VcCall
  \/ VcCheck
  \/ VcReturn
  \/ VcExcept

SpecConstraints == InitConstraints /\ [][NextConstraints]_vars

\* ---------------------------------------------------------- Spec: handler
\* An event key that is missing; "" stands for a value Python takes as false
\* (None or the empty string).
MISSING == "<missing>"

Events ==
  [contract_path : {MISSING, "", "contracts/c.yaml"},
   source_path : {MISSING, "", "data/in.csv"},
   target_path : {MISSING, "", "out/out.csv"}]

\* event.get(key, default)
Get(ev, key, default) == IF ev[key] = MISSING THEN default ELSE ev[key]

\* What load_contract can return: DataContract(contract_dict).
EmptyRules == [kind |-> "dict", min_rows |-> ABSENT, max_rows |-> ABSENT,
               completeness_threshold |-> ABSENT]
Contracts ==
  [name : {"orders"},
   source_s3_path : {"", "s3://bucket/in.csv"},
   target_s3_path : {"", "s3://bucket/out.csv"},
   schema : { sc \in Schemas : sc.columns.keys \in {{}, {"id"}} },
   sla : {EmptyRules, [EmptyRules EXCEPT !.min_rows = Num(1)],
          [EmptyRules EXCEPT !.max_rows = STR], RuleNone}]

\* source_path = event.get("source_path", contract.source_s3_path)
SourcePath(ev, c) == Get(ev, "source_path", c.source_s3_path)
\* target_path = event.get("target_path", contract.target_s3_path)
TargetPath(ev, c) == Get(ev, "target_path", c.target_s3_path)

\* if not source_path or not target_path
PathsMissingBuggy(ev, c) == SourcePath(ev, c) = "" /\ TargetPath(ev, c) = ""

PathsMissing(ev, c) == SourcePath(ev, c) = "" \/ TargetPath(ev, c) = ""

\* if not pipeline_results.get("success", True)
RejectedBuggy(pr) == FALSE

Rejected(pr) == ~pr.success

Call(op, ok) == [op |-> op, ok |-> ok]

Response200(c, n_in, n_out, pr) ==
  [statusCode |-> 200, message |-> "Data contract execution completed successfully",
   contract |-> c.name, input_rows |-> n_in, output_rows |-> n_out,
   pipeline_results |-> pr]

Response400(pr) ==
  [statusCode |-> 400, message |-> "Pipeline validation failed", results |-> pr]

Response500Buggy(e) ==
  [statusCode |-> 400, message |-> "Data contract execution failed: {}", error |-> e]

Response500(e) ==
  [statusCode |-> 500, message |-> "Data contract execution failed: {}", error |-> e]

MissingContractPath == "Missing required parameter: contract_path"
MissingPaths == "Source and target paths must be specified in contract or event"

\* One invocation of handler(event, context).
Init ==
  /\ pc = "start"
  /\ event \in Events
  /\ contract = NoContract
  /\ df = NoFrame
  /\ sla_rules = NoContract.sla
  /\ schema = NoSchema
  /\ results = SlaInitial
  /\ pipeline_results = <<>>
  /\ input_row_count = 0
  /\ calls = <<>>
  /\ error = ""
  /\ target = NoTarget
  /\ response = NoResponse
  /\ source = NoFrame
  /\ ValidatorsIdle
  /\ CacheIdle

HFrame == <<event, results, Validators, Cache>>

\* contract_path = event.get("contract_path"); if not contract_path: raise
HStart ==
  /\ pc = "start"
  /\ IF Get(event, "contract_path", "") = ""
       THEN pc' = "except" /\ error' = MissingContractPath
       ELSE pc' = "load" /\ error' = error
  /\ UNCHANGED <<contract, df, sla_rules, schema, pipeline_results, input_row_count,
                 calls, target, response, source, HFrame>>

\* contract = load_contract(contract_path): a contract, or FileNotFoundError
\* (no such file), or ValueError (unreadable or malformed).
HLoad ==
  /\ pc = "load"
  /\ \/ /\ \E c \in Contracts : contract' = c
        /\ calls' = Append(calls, Call("load_contract", TRUE))
        /\ pc' = "paths"
        /\ error' = error
     \/ /\ \E e \in {"Contract file not found: {}", "Failed to load contract: {}"} :
             error' = e
        /\ calls' = Append(calls, Call("load_contract", FALSE))
        /\ pc' = "except"
        /\ contract' = contract
  /\ UNCHANGED <<df, sla_rules, schema, pipeline_results, input_row_count, target,
                 response, source, HFrame>>

\* source_path, target_path; if not source_path or not target_path: raise
HPaths ==
  /\ pc = "paths"
  /\ IF PathsMissing(event, contract)
       THEN pc' = "except" /\ error' = MissingPaths
       ELSE pc' = "read" /\ error' = error
  /\ UNCHANGED <<contract, df, sla_rules, schema, pipeline_results, input_row_count,
                 calls, target, response, source, HFrame>>

\* df = _read_csv(source_path); input_row_count = len(df)
HRead ==
  /\ pc = "read"
  /\ \/ /\ \E d \in CsvFrames : df' = d
        /\ source' = df'
        /\ input_row_count' = RowCount(df')
        /\ calls' = Append(calls, Call("read_csv", TRUE))
        /\ pc' = "pipeline"
        /\ error' = error
     \/ /\ error' = "read_csv failed"
        /\ calls' = Append(calls, Call("read_csv", FALSE))
        /\ pc' = "except"
        /\ UNCHANGED <<df, input_row_count, source>>
  /\ UNCHANGED <<contract, sla_rules, schema, pipeline_results, target, response, HFrame>>

\* pipeline = PipelineGenerator(contract); pipeline_results = pipeline.generate(df)
HPipeline ==
  /\ pc = "pipeline"
  /\ schema' = contract.schema
  /\ sla_rules' = contract.sla
  /\ pipeline_results' = Generate(schema', sla_rules', df)
  /\ df' = GenerateFrame(schema', df)
  /\ calls' = Append(calls, Call("generate", TRUE))
  /\ pc' = "check"
  /\ UNCHANGED <<contract, input_row_count, error, target, response, source, HFrame>>

\* if not pipeline_results.get("success", True): return {"statusCode": 400, ...}
HCheck ==
  /\ pc = "check"
  /\ IF Rejected(pipeline_results)
       THEN pc' = "returned" /\ response' = Response400(pipeline_results)
       ELSE pc' = "write" /\ response' = response
  /\ UNCHANGED <<contract, df, sla_rules, schema, pipeline_results, input_row_count,
                 calls, error, target, source, HFrame>>

\* _write_csv(df, target_path): the target holds df, or the write raises and
\* leaves the target as it was or partly written.
HWrite ==
  /\ pc = "write"
  /\ \/ /\ target' = [written |-> TRUE, partial |-> FALSE, data |-> df]
        /\ calls' = Append(calls, Call("write_csv", TRUE))
        /\ pc' = "respond"
        /\ error' = error
     \/ /\ \E part \in BOOLEAN : target' = [target EXCEPT !.partial = part]
        /\ calls' = Append(calls, Call("write_csv", FALSE))
        /\ pc' = "except"
        /\ error' = "write_csv failed"
  /\ UNCHANGED <<contract, df, sla_rules, schema, pipeline_results, input_row_count,
                 response, source, HFrame>>

\* return {"statusCode": 200, ...}
HRespond ==
  /\ pc = "respond"
  /\ response' = Response200(contract, input_row_count, RowCount(df), pipeline_results)
  /\ pc' = "returned"
  /\ UNCHANGED <<contract, df, sla_rules, schema, pipeline_results, input_row_count,
                 calls, error, target, source, HFrame>>

\* except Exception as e: return {"statusCode": 500, ...}
HExcept ==
  /\ pc = "except"
  /\ response' = Response500(error)
  /\ error' = ""
  /\ pc' = "returned"
  /\ UNCHANGED <<contract, df, sla_rules, schema, pipeline_results, input_row_count,
                 calls, target, source, HFrame>>

Next ==
  \/ HStart
  \/ HLoad
  \/ HPaths
  \/ HRead
  \/ HPipeline
  \/ HCheck
  \/ HWrite
  \/ HRespond
  \/ HExcept

Spec == Init /\ [][Next]_vars

\* ------------------------------- SpecCache: generate calls and get_results
\* Contracts and datasets of the runs whose reports are compared.
CacheSchemas == { sc \in Schemas : sc.columns.tag = "dict" /\ sc.columns.keys \in {{}, {"id"}} }
CacheRules == {EmptyRules, [EmptyRules EXCEPT !.min_rows = Num(1)]}
CacheFrames == { d \in ScalarFrames : RowCount(d) <= 1 }

\* PipelineGenerator(contract), before the first generate.
InitCache ==
  /\ pc = "idle"
  /\ schema \in CacheSchemas
  /\ sla_rules \in CacheRules
  /\ df = NoFrame
  /\ results = SlaInitial
  /\ pipeline_results = <<>>
  /\ event = NoEvent
  /\ contract = NoContract
  /\ input_row_count = 0
  /\ calls = <<>>
  /\ error = ""
  /\ target = NoTarget
  /\ response = NoResponse
  /\ source = NoFrame
  /\ ValidatorsIdle
  /\ CacheIdle

\* generate(df) on a generator that may have run before: the caller keeps the
\* report of the previous run.
CacheCall ==
  /\ pc \in {"idle", "returned"}
  /\ \E d \in CacheFrames : df' = d
  /\ pipeline_results' = GenInitial(df')
  /\ earlier' = IF pc = "returned"
                  THEN [returned |-> TRUE, df |-> df,
                        report |-> Detached(pipeline_results, pipeline_results')]
                  ELSE earlier
  /\ got' = NoReport
  /\ pc' = "schema"
  /\ UNCHANGED GenFrame

\* get_results(), between generate calls
CacheGet ==
  /\ pc \in {"idle", "returned"}
  /\ got' = [fetched |-> TRUE, value |-> GetResults(pipeline_results)]
  /\ UNCHANGED <<pc, df, pipeline_results, earlier, GenFrame>>

NextCache ==
  \/ CacheCall
  \/ GenSchema
  \/ GenSchemaFlag
  \/ GenQuality
  \/ GenSla
  \/ GenSlaFlag
  \/ GenReturn
  \/ CacheGet

SpecCache == InitCache /\ [][NextCache]_vars

\* ------------------------------------------------------ claims on enforce_sla
\* A violation of the given format is among the violations.
HasText(vs, t) == \E i \in 1..Len(vs) : vs[i].text = t

\* Both row-count bounds, when configured, are numbers.
WellFormedBounds ==
  /\ sla_rules.kind = "dict"
  /\ sla_rules.min_rows.tag \in {"absent", "num"}
  /\ sla_rules.max_rows.tag \in {"absent", "num"}

\* C8: with well-formed row-count bounds, enforce_sla returns a minimum-rows
\* violation iff min_rows is configured and the row count is strictly below
\* it, a maximum-rows violation iff max_rows is configured and the row count
\* is strictly above it, and either violation comes with sla_passed = false;
\* a row count equal to a bound records no violation for that bound.
C8_InclusiveRowBounds ==
  (pc = "returned" /\ WellFormedBounds) =>
    /\ HasText(results.violations, MinText)
          <=> (sla_rules.min_rows.tag = "num" /\ RowCount(df) < sla_rules.min_rows.n)
    /\ HasText(results.violations, MaxText)
          <=> (sla_rules.max_rows.tag = "num" /\ RowCount(df) > sla_rules.max_rows.n)
    /\ (HasText(results.violations, MinText) \/ HasText(results.violations, MaxText))
          => ~results.sla_passed

\* A call returned with the row count on both bounds, and no violation.
C8_Witness ==
  /\ pc = "returned"
  /\ WellFormedBounds
  /\ sla_rules.min_rows = Num(1)
  /\ sla_rules.max_rows = Num(1)
  /\ RowCount(df) = 1
  /\ results.violations = <<>>
  /\ results.sla_passed

\* C9: enforce_sla does not short-circuit: on return every configured rule
\* that the dataset violates has contributed its violation message, whatever
\* the other rules are (a malformed one included).
C9_NoShortCircuit ==
  (pc = "returned" /\ sla_rules.kind = "dict") =>
    /\ (sla_rules.min_rows.tag = "num" /\ RowCount(df) < sla_rules.min_rows.n)
          => HasText(results.violations, MinText)
    /\ (sla_rules.max_rows.tag = "num" /\ RowCount(df) > sla_rules.max_rows.n)
          => HasText(results.violations, MaxText)
    /\ (sla_rules.completeness_threshold.tag = "num"
          /\ Below(Completeness(df), sla_rules.completeness_threshold.n))
          => HasText(results.violations, CompletenessText)

\* Evaluating the rules fails inside enforce_sla: the rules are None, a list
\* naming a key, or a mapping with a configured value that is no number.
InternalFailure(rules) ==
  \/ rules.kind = "none"
  \/ \E k \in {"min_rows", "max_rows", "completeness_threshold"} :
       /\ rules[k].tag # "absent"
       /\ rules.kind = "list" \/ rules[k].tag # "num"

\* C10: enforce_sla never raises: every call returns with no exception in
\* flight; when evaluating the rules fails, the returned result has
\* sla_passed = false and a violation describing the error (and no error
\* message otherwise); within a call sla_passed is never set back to true.
C10_NeverRaises ==
  /\ [](pc = "returned" =>
          /\ results.exc = ""
          /\ InternalFailure(sla_rules)
                => (~results.sla_passed /\ HasText(results.violations, ErrorText))
          /\ HasText(results.violations, ErrorText) => InternalFailure(sla_rules))
  /\ [](results.sla_passed \/ Len(results.violations) > 0)
  /\ [][(~results.sla_passed /\ pc # "returned") => ~results'.sla_passed]_vars

\* A call on rules that are None returned the error as a violation.
C10_Witness ==
  /\ pc = "returned"
  /\ sla_rules.kind = "none"
  /\ ~results.sla_passed
  /\ HasText(results.violations, ErrorText)

\* --------------------------------------------------------- claims on generate
StepNames(pr) == [i \in 1..Len(pr.steps) |-> pr.steps[i].name]

IsPrefix(a, b) == Len(a) <= Len(b) /\ \A i \in 1..Len(a) : a[i] = b[i]

\* A generate call is running or has returned.
InRun == pc # "idle"

\* C1: when validate_schema(df) is false, generate returns success = false
\* and exactly one step, schema_validation with status failed; the run never
\* reaches the quality profiler or the SLA enforcer, and no data_quality or
\* sla_enforcement step is ever in the report.
C1_SchemaFailureShortCircuits ==
  (InRun /\ ~ValidateSchema(schema, df)) =>
    /\ pc \in {"schema", "schema_flag", "returned"}
    /\ \A i \in 1..Len(pipeline_results.steps) :
         pipeline_results.steps[i].name = "schema_validation"
    /\ pc = "returned" =>
         /\ ~pipeline_results.success
         /\ Len(pipeline_results.steps) = 1
         /\ pipeline_results.steps[1].status = "failed"

\* generate returned on a dataset that lacks a required column.
C1_Witness ==
  /\ pc = "returned"
  /\ schema.kind = "dict" /\ schema.columns.tag = "dict"
  /\ "email" \in schema.columns.keys
  /\ ~pipeline_results.success
  /\ StepNames(pipeline_results) = <<"schema_validation">>

\* C2: when validate_schema(df) is true, generate returns exactly the steps
\* schema_validation, data_quality, sla_enforcement in that order, whatever
\* the SLA rules are; during the run the steps are those executed so far, and
\* a step only ever appends to them.
C2_ThreeStepsInOrder ==
  /\ []((InRun /\ ValidateSchema(schema, df)) =>
          StepNames(pipeline_results) =
            CASE pc = "schema" -> <<>>
              [] pc \in {"schema_flag", "quality"} -> <<"schema_validation">>
              [] pc = "sla" -> <<"schema_validation", "data_quality">>
              [] OTHER -> <<"schema_validation", "data_quality", "sla_enforcement">>)
  /\ [][(InRun /\ pc' # "schema") =>
          IsPrefix(StepNames(pipeline_results), StepNames(pipeline_results'))]_vars

\* generate returned three steps on SLA rules that are no mapping.
C2_Witness ==
  /\ pc = "returned"
  /\ sla_rules.kind = "none"
  /\ StepNames(pipeline_results) = <<"schema_validation", "data_quality", "sla_enforcement">>

\* C3: on return, success is true iff the schema check passed and the SLA
\* result has sla_passed = true; success is false iff some step has status
\* failed; the data_quality step has status completed, also when profiling
\* failed internally.
C3_SuccessIsSchemaAndSla ==
  pc = "returned" =>
    LET steps == pipeline_results.steps
    IN  /\ pipeline_results.success <=>
             /\ steps[1].status = "passed"
             /\ Len(steps) = 3
             /\ steps[Len(steps)].details.sla_passed
        /\ steps[1].status = "passed" <=> ValidateSchema(schema, df)
        /\ ~pipeline_results.success <=> \E i \in 1..Len(steps) : steps[i].status = "failed"
        /\ \A i \in 1..Len(steps) :
             steps[i].name = "data_quality" => steps[i].status = "completed"

\* generate returned success although profiling failed internally.
C3_Witness ==
  /\ pc = "returned"
  /\ pipeline_results.success
  /\ ~pipeline_results.steps[2].details.validation_passed

\* C4: within one run of generate, success starts true, and once it is false
\* no later step of the run sets it back to true.
C4_SuccessMonotone ==
  /\ [](pc = "schema" => pipeline_results.success)
  /\ [][(InRun /\ pc # "returned" /\ ~pipeline_results.success)
          => ~pipeline_results'.success]_vars

\* The run went on (to its return) after the SLA step had set success false.
C4_Witness ==
  /\ pc = "returned"
  /\ ~pipeline_results.success
  /\ Len(pipeline_results.steps) = 3

\* ------------------------------------------------------ claims on the handler
Ops == [i \in 1..Len(calls) |-> calls[i].op]

\* The target location was touched: written, or left partly written.
TargetTouched == target.written \/ target.partial

\* C5: the dataset is written to the target only if the pipeline report has
\* success = true: a 400 response means no write was attempted and the target
\* is untouched, and a write is always the fourth call, after a contract load
\* and a source read that succeeded and a pipeline run that reported success,
\* in that order.
C5_WriteOnlyOnSuccess ==
  /\ response.statusCode = 400 =>
       /\ ~TargetTouched
       /\ \A i \in 1..Len(calls) : calls[i].op # "write_csv"
  /\ (TargetTouched \/ \E i \in 1..Len(calls) : calls[i].op = "write_csv") =>
       /\ Ops = <<"load_contract", "read_csv", "generate", "write_csv">>
       /\ \A i \in 1..3 : calls[i].ok
       /\ pipeline_results.success

\* The handler returned 400 after the pipeline had run on a loaded contract.
C5_Witness ==
  /\ pc = "returned"
  /\ response.statusCode = 400
  /\ Ops = <<"load_contract", "read_csv", "generate">>

\* An operational error happened: a required parameter is missing, or the
\* last collaborator called raised.
OperationalError ==
  \/ Get(event, "contract_path", "") = ""
  \/ Len(calls) > 0 /\ ~calls[Len(calls)].ok
  \/ Len(calls) = 1 /\ calls[1].ok /\ PathsMissing(event, contract)

\* C6: every invocation returns exactly one of the three response classes,
\* with no exception left in flight: 200 iff the pipeline succeeded and the
\* target write completed, 400 iff the pipeline ran and reported success =
\* false, 500 iff an operational error happened (missing parameter, contract
\* load failure, read failure, write failure).
C6_ThreeResponseClasses ==
  pc = "returned" =>
    /\ error = ""
    /\ response.statusCode \in {200, 400, 500}
    /\ response.statusCode = 200 <=>
         /\ Len(calls) = 4 /\ calls[3].op = "generate" /\ pipeline_results.success
         /\ calls[4] = Call("write_csv", TRUE)
         /\ target = [written |-> TRUE, partial |-> FALSE, data |-> df]
    /\ response.statusCode = 400 <=>
         /\ Len(calls) = 3 /\ calls[3].op = "generate" /\ ~pipeline_results.success
    /\ response.statusCode = 500 <=> OperationalError

\* The handler returned 500 because the target write raised.
C6_Witness ==
  /\ pc = "returned"
  /\ response.statusCode = 500
  /\ Len(calls) = 4
  /\ calls[4] = Call("write_csv", FALSE)

\* Neither the event nor the contract gives a source, or neither a target.
NoLocation(ev, c) ==
  \/ ev.source_path \in {MISSING, ""} /\ c.source_s3_path = ""
  \/ ev.target_path \in {MISSING, ""} /\ c.target_s3_path = ""

\* C7: with no contract_path in the event, the handler returns 500 with the
\* message naming contract_path and calls no collaborator; when the contract
\* loads but no source or no target location comes from the event or the
\* contract, the handler returns 500 having called only the loader.
C7_MissingParameters ==
  /\ event.contract_path \in {MISSING, ""} =>
       /\ calls = <<>>
       /\ ~TargetTouched
       /\ pc = "returned" =>
            response = Response500("Missing required parameter: contract_path")
  /\ (Len(calls) > 0 /\ calls[1].ok /\ NoLocation(event, contract)) =>
       /\ Ops = <<"load_contract">>
       /\ ~TargetTouched
       /\ pc = "returned" =>
            response = Response500(
              "Source and target paths must be specified in contract or event")

\* The handler returned 500 on a contract with a source but no target.
C7_Witness ==
  /\ pc = "returned"
  /\ response.statusCode = 500
  /\ Ops = <<"load_contract">>
  /\ calls[1].ok
  /\ SourcePath(event, contract) # ""
  /\ event.target_path = MISSING
  /\ contract.target_s3_path = ""

\* ------------------------------------------- claims on enforce_sla's metrics
HasMetric(res, k) == k \in DOMAIN res.metrics

\* A completeness threshold is configured in rules that are a mapping.
ThresholdConfigured ==
  sla_rules.kind = "dict" /\ sla_rules.completeness_threshold.tag # "absent"

\* What C11 says of a returned result: the completeness recorded, and when a
\* completeness violation is.
CompletenessAsClaimed ==
  LET cells == RowCount(df) * Cardinality(df.columns)
      t == sla_rules.completeness_threshold
      violated == HasText(results.violations, CompletenessText)
  IN  /\ HasMetric(results, "completeness")
      /\ results.metrics["completeness"] =
           IF cells = 0 THEN [num |-> 1, den |-> 1]
           ELSE [num |-> cells - NullCells(df), den |-> cells]
      /\ t.tag = "num" =>
           (violated <=> IF cells = 0 THEN t.n > 100
                         ELSE (cells - NullCells(df)) * 100 < t.n * cells)
      /\ t.tag # "num" => ~violated

\* C11: when completeness_threshold is configured, enforce_sla records
\* metrics.completeness: 1.0 for a dataset of zero cells, with a violation
\* only if the threshold is above 1, and otherwise (totalCells - nullCells) /
\* totalCells, with a violation iff that is strictly below the threshold.
C11_CompletenessRecorded ==
  (pc = "returned" /\ ThresholdConfigured) => CompletenessAsClaimed

\* The same, for the calls whose row-count rules are absent or numbers, so
\* that evaluation reaches the completeness rule.
C11_WhenRowRulesEvaluate ==
  (pc = "returned" /\ ThresholdConfigured /\ WellFormedBounds) => CompletenessAsClaimed

\* C14: in the returned result metrics.row_count is the dataset's row count
\* whenever min_rows or max_rows (or both) is configured (as a number).
C14_RowCountAvailable ==
  (pc = "returned" /\ WellFormedBounds
     /\ (sla_rules.min_rows.tag = "num" \/ sla_rules.max_rows.tag = "num")) =>
    /\ HasMetric(results, "row_count")
    /\ results.metrics["row_count"] = RowCount(df)

\* No rule is configured: the rules hold none of the three keys.
NoRuleConfigured ==
  /\ sla_rules.kind # "none"
  /\ \A k \in {"min_rows", "max_rows", "completeness_threshold"} :
       sla_rules[k].tag = "absent"

\* C17: metrics.completeness is present only if completeness_threshold is
\* configured, at every point of every call; with no rule configured the
\* returned result has sla_passed = true, no violations and empty metrics.
C17_CompletenessOnlyIfConfigured ==
  /\ HasMetric(results, "completeness") =>
       (sla_rules.kind # "none" /\ sla_rules.completeness_threshold.tag # "absent")
  /\ (pc = "returned" /\ NoRuleConfigured) =>
       /\ results.sla_passed
       /\ results.violations = <<>>
       /\ DOMAIN results.metrics = {}

\* A call returned on a dataset with rows and nulls under rules that configure
\* nothing.
C17_Witness ==
  /\ pc = "returned"
  /\ sla_rules = EmptyRules
  /\ RowCount(df) > 0
  /\ NullCells(df) > 0
  /\ results.sla_passed
  /\ DOMAIN results.metrics = {}

\* ------------------------------------------------- claims on the frame effect
\* C16: generate leaves the dataset and the contract as they were, so a 200
\* response means the target holds exactly the dataset read from the source
\* and output_rows equals input_rows.
C16_PipelineOnlyJudges ==
  /\ [](response.statusCode = 200 =>
          /\ target.written /\ target.data = source
          /\ response.output_rows = response.input_rows
          /\ response.input_rows = RowCount(source))
  /\ [][pc = "pipeline" => (df' = df /\ contract' = contract)]_vars

\* A 200 response on a source holding the same row twice.
C16_Witness ==
  /\ response.statusCode = 200
  /\ RowCount(source) = 2
  /\ source.rows[1] = source.rows[2]
  /\ target.data = source

\* -------------------------------------------------- claims on validate_schema
\* The schema is a mapping whose "columns", when present, is a mapping.
WellFormedSchema ==
  schema.kind = "dict" /\ schema.columns.tag \in {"absent", "dict"}

\* C12: validate_schema returns true iff every name declared in
\* schema.columns is, letter for letter, a column of the dataset, whatever
\* the declared types and the other columns; no declared name gives true, and
\* a malformed schema gives false.
C12_SchemaValidation ==
  pc = "returned" =>
    /\ WellFormedSchema =>
         (valid <=> \A n \in DeclaredNames :
                      n \in schema.columns.keys => \E c \in df.columns : c = n)
    /\ (WellFormedSchema /\ schema.columns.keys = {}) => valid
    /\ ~WellFormedSchema => ~valid

\* The schema declares "ID", the dataset has "id" and another column, and
\* validation returned false.
C12_Witness ==
  /\ pc = "returned"
  /\ WellFormedSchema
  /\ schema.columns.keys = {"ID"}
  /\ df.columns = {"id", "name"}
  /\ ~valid

\* --------------------------------------------- claims on validate_constraints
\* The cells of the constraint's column that hold a number.
Numbers(c) ==
  { i \in 1..Len(df.rows) : df.rows[i][c.column] # "null" }

\* The constraint fails on the dataset: its column is not there, or not_null
\* meets a null, or value cannot be ordered against a number, or min_value
\* (max_value) meets a number below (above) value.
Fails(c) ==
  \/ c.column \notin df.columns
  \/ /\ c.type = "not_null"
     /\ \E i \in 1..Len(df.rows) : df.rows[i][c.column] = "null"
  \/ /\ c.type \in {"min_value", "max_value"}
     /\ c.value.tag # "num"
  \/ /\ c.type = "min_value"
     /\ c.value.tag = "num"
     /\ \E i \in Numbers(c) : CellNumber(df.rows[i][c.column]) < c.value.n
  \/ /\ c.type = "max_value"
     /\ c.value.tag = "num"
     /\ \E i \in Numbers(c) : CellNumber(df.rows[i][c.column]) > c.value.n

\* C13: validate_constraints returns true iff no constraint of the list
\* fails; when it returns false it stopped at the first failing constraint,
\* having taken up no later one.
C13_ConstraintsInOrder ==
  pc = "returned" =>
    /\ valid <=> \A i \in 1..Len(constraints) : ~Fails(constraints[i])
    /\ valid => checked = Len(constraints)
    /\ ~valid =>
         /\ checked \in 1..Len(constraints)
         /\ Fails(constraints[checked])
         /\ \A j \in 1..(checked - 1) : ~Fails(constraints[j])

\* The column holds 1 and 2: min_value 2 failed, and the failing constraint
\* after it was not taken up.
C13_Witness ==
  /\ pc = "returned"
  /\ df.columns = {"id"}
  /\ RowCount(df) = 2
  /\ df.rows[1]["id"] = "1"
  /\ df.rows[2]["id"] = "2"
  /\ constraints = << [type |-> "min_value", column |-> "id", value |-> Num(2)],
                      [type |-> "not_null", column |-> "email", value |-> ABSENT] >>
  /\ checked = 1
  /\ ~valid

\* Both bounds at the column's extremes: every constraint passed.
C13_BoundaryWitness ==
  /\ pc = "returned"
  /\ df.columns = {"id"}
  /\ RowCount(df) = 2
  /\ df.rows[1]["id"] = "1"
  /\ df.rows[2]["id"] = "2"
  /\ constraints = << [type |-> "min_value", column |-> "id", value |-> Num(1)],
                      [type |-> "max_value", column |-> "id", value |-> Num(2)] >>
  /\ checked = 2
  /\ valid

\* ------------------------------------------------ claims on the cached report
\* C15: get_results returns the empty mapping before the first generate and
\* afterwards the report of the most recent generate, which is the report of
\* a run of that dataset alone; the report an earlier generate returned stays
\* the report of its own run.
C15_CachedReport ==
  /\ (got.fetched /\ pc = "idle") => DOMAIN got.value = {}
  /\ (got.fetched /\ pc # "idle") =>
       /\ got.value = pipeline_results
       /\ got.value = Generate(schema, sla_rules, df)
       /\ Len(got.value.steps) <= 3
  /\ earlier.returned => earlier.report = Generate(schema, sla_rules, earlier.df)

\* A run that failed its SLA, then a run that succeeded, then get_results.
C15_Witness ==
  /\ pc = "returned"
  /\ got.fetched
  /\ earlier.returned
  /\ Len(earlier.report.steps) = 3
  /\ ~earlier.report.success
  /\ Len(got.value.steps) = 3
  /\ got.value.success

====
